---- MODULE Spec2Model ----
(***************************************************************************)
(* Model of fix-app-icon.py: remove_alpha(input_path, output_path) and the *)
(* __main__ entry point that calls it on the app icon in place.            *)
(*                                                                         *)
(* The file system holds the files at two paths.  An image file is a PNG   *)
(* of some colour mode with its band values per pixel; an in-memory image  *)
(* holds the imaging library's storage: RGB, RGBA and LA images keep four  *)
(* bytes per pixel (R,G,B,pad / R,G,B,A / L,L,L,A), L and P images one.    *)
(* Image.open reads the header only; the pixel data is decoded by the      *)
(* first operation that needs it (split, convert, save).                   *)
(***************************************************************************)
EXTENDS Integers, Sequences, FiniteSets, TLC

VARIABLES
    fs,           \* path -> file content
    pc,           \* position of the running invocation
    viaMain,      \* TRUE when remove_alpha was called by __main__
    input_path,   \* argument of remove_alpha
    output_path,  \* argument of remove_alpha
    img,          \* local variable img
    mask,         \* the band handed to paste as mask (<<>> when none)
    exc,          \* exception raised inside the try block ("none" if none)
    failedAt,     \* step that raised: none, decode, composite, open_out, encode
    propagated,   \* TRUE when an exception left remove_alpha
    ret,          \* return value of remove_alpha: "none", "True", "False"
    exitCode,     \* process exit status: <<>> while running, <<0>>, <<1>>
    log,          \* console lines printed by this invocation (tags)
    pre,          \* fs when the invocation started
    opened,       \* header of the image decoded by Image.open
    prev,         \* what the invocation before this one wrote, if it succeeded
    runs          \* invocations completed so far

vars == <<fs, pc, viaMain, input_path, output_path, img, mask, exc, failedAt,
          propagated, ret, exitCode, log, pre, opened, prev, runs>>

---------------------------------------------------------------------------
\* Bounds of the model
MaxPixels == 2
MaxRuns == 2

\* Program constants
White == 255
RGBAMaskIndex == 3
LAMaskIndex == 1

Byte == 0..255

Paths == {"icon", "other"}
IconPath == "icon"

Modes == {"RGBA", "LA", "RGB", "L", "P"}

Sizes == {s \in (1..MaxPixels) \X (1..MaxPixels) : s[1] * s[2] <= MaxPixels}

Palette == << <<0, 0, 0>>, <<10, 128, 200>> >>

\* Sample values the input images are drawn from
AlphaSamples == {0, 128, 255}
ColourSamples == { <<0, 0, 0>>, <<10, 128, 200>>, <<255, 255, 255>> }
GraySamples == {0, 77, 255}

FilePixels(mode) ==
    CASE mode = "RGBA" -> {c \o <<a>> : c \in ColourSamples, a \in AlphaSamples}
      [] mode = "LA"   -> {<<l, a>> : l \in GraySamples, a \in AlphaSamples}
      [] mode = "RGB"  -> ColourSamples
      [] mode = "L"    -> {<<l>> : l \in GraySamples}
      [] mode = "P"    -> {<<i>> : i \in 0..(Len(Palette) - 1)}

\* File contents
NoFile == [kind |-> "missing", mode |-> "", size |-> <<0, 0>>, data |-> <<>>]
Garbage == [kind |-> "garbage", mode |-> "", size |-> <<0, 0>>, data |-> <<>>]
Empty == [kind |-> "empty", mode |-> "", size |-> <<0, 0>>, data |-> <<>>]
Truncated(mode, size) ==
    [kind |-> "truncated", mode |-> mode, size |-> size, data |-> <<>>]
Png(mode, size, data) ==
    [kind |-> "png", mode |-> mode, size |-> size, data |-> data]

PngFiles ==
    UNION { UNION { {Png(m, s, d) : d \in [1..(s[1] * s[2]) -> FilePixels(m)]}
                    : s \in Sizes } : m \in Modes }

TruncatedFiles == {Truncated(m, <<1, 1>>) : m \in Modes}

InputFiles == {NoFile, Garbage} \cup TruncatedFiles \cup PngFiles

OldOutput == Png("RGB", <<1, 1>>, << <<1, 2, 3>> >>)

NoImage == [mode |-> "", size |-> <<0, 0>>, px |-> <<>>, loaded |-> FALSE]

---------------------------------------------------------------------------
\* Imaging library operations used by remove_alpha

\* Image.open: identify the file and read its header; pixel data is not read.
OpenError(f) ==
    CASE f.kind = "missing" -> "FileNotFoundError"
      [] f.kind \in {"garbage", "empty"} -> "UnidentifiedImageError"
      [] OTHER -> "none"

OpenHeader(f) == [mode |-> f.mode, size |-> f.size, px |-> <<>>, loaded |-> FALSE]

\* Unpack one pixel of a file into storage.
Unpack(mode, p) ==
    CASE mode = "RGBA" -> p
      [] mode = "LA"   -> <<p[1], p[1], p[1], p[2]>>
      [] mode = "RGB"  -> <<p[1], p[2], p[3], 255>>
      [] OTHER         -> p

\* Pack one pixel of storage into a file.
Pack(mode, s) ==
    CASE mode = "RGBA" -> s
      [] mode = "LA"   -> <<s[1], s[4]>>
      [] mode = "RGB"  -> <<s[1], s[2], s[3]>>
      [] OTHER         -> s

\* img.load(): decode the pixel data of the file behind a lazily opened image.
LoadError(im, f) ==
    IF ~im.loaded /\ f.kind # "png" THEN "OSError" ELSE "none"

Load(im, f) ==
    IF im.loaded THEN im
    ELSE [im EXCEPT !.px = [i \in 1..Len(f.data) |-> Unpack(f.mode, f.data[i])],
                    !.loaded = TRUE]

\* Mutant: the canvas is allocated with width and height exchanged.
NewImageTransposed(mode, size, colour) ==
    [mode |-> mode, size |-> <<size[2], size[1]>>,
     px |-> [i \in 1..(size[1] * size[2]) |-> colour \o <<255>>],
     loaded |-> TRUE]

\* Image.new(mode, size, color)
NewImage(mode, size, colour) ==
    [mode |-> mode, size |-> size,
     px |-> [i \in 1..(size[1] * size[2]) |-> colour \o <<255>>],
     loaded |-> TRUE]

\* img.split(): one band per channel of the mode, in channel order.
BandOffsets(mode) ==
    CASE mode = "RGBA" -> <<1, 2, 3, 4>>
      [] mode = "LA"   -> <<1, 4>>
      [] mode = "RGB"  -> <<1, 2, 3>>
      [] OTHER         -> <<1>>

Split(im) ==
    [b \in 1..Len(BandOffsets(im.mode)) |->
        [i \in 1..Len(im.px) |-> im.px[i][BandOffsets(im.mode)[b]]]]

\* The library's 8-bit blend: round((in1 * (255 - m) + in2 * m) / 255).
Div255(a) == LET tmp == a + 128 IN ((tmp \div 256) + tmp) \div 256

\* Mutant: the mask weighs the destination instead of the source.
BlendInverted(m, in1, in2) == Div255(in1 * m + in2 * (255 - m))

\* Mutant: the blend divides by 256 without rounding.
BlendShift(m, in1, in2) == (in1 * (255 - m) + in2 * m) \div 256

Blend(m, in1, in2) == Div255(in1 * (255 - m) + in2 * m)

\* background.paste(im, mask=band): every storage byte of the destination is
\* blended with the same byte of the source, weighted by the mask.
Paste(bg, im, band) ==
    [bg EXCEPT !.px = [i \in 1..Len(bg.px) |->
        [k \in 1..Len(bg.px[i]) |-> Blend(band[i], bg.px[i][k], im.px[i][k])]]]

\* img.convert('RGB') for the modes without alpha.
ConvertPixel(mode, s) ==
    CASE mode = "L" -> <<s[1], s[1], s[1], 255>>
      [] mode = "P" -> Palette[s[1] + 1] \o <<255>>
      [] OTHER      -> <<s[1], s[2], s[3], 255>>

ConvertRGB(im) ==
    [im EXCEPT !.mode = "RGB",
               !.px = [i \in 1..Len(im.px) |-> ConvertPixel(im.mode, im.px[i])]]

\* PNG encoder: the file a successful save writes.
EncodePNG(im) ==
    Png(im.mode, im.size, [i \in 1..Len(im.px) |-> Pack(im.mode, im.px[i])])

---------------------------------------------------------------------------
\* remove_alpha

\* Mutant: the first band is taken as mask of an LA image.
MaskIndexFirstLA(mode) == IF mode = "RGBA" THEN RGBAMaskIndex ELSE 0

\* Mutant: the blue band is taken as mask of an RGBA image.
MaskIndexBlue(mode) == IF mode = "RGBA" THEN 2 ELSE LAMaskIndex

\* Index of the band used as paste mask.
MaskIndex(mode) == IF mode = "RGBA" THEN RGBAMaskIndex ELSE LAMaskIndex

\* Mutant: RGB is listed among the modes that are composited.
NeedsCompositeRGB(mode) == mode \in {"RGBA", "LA", "RGB"}

\* if img.mode in ('RGBA', 'LA')
NeedsComposite(mode) == mode \in {"RGBA", "LA"}

\* Mutant: the elif branch never converts.
NeedsConvertNever(mode) == FALSE

\* elif img.mode != 'RGB'
NeedsConvert(mode) == mode # "RGB"

\* The mode branch of remove_alpha, on a loaded image.
Flatten(im) ==
    IF NeedsComposite(im.mode)
    THEN Paste(NewImage("RGB", im.size, <<White, White, White>>), im,
               Split(im)[MaskIndex(im.mode) + 1])
    ELSE IF NeedsConvert(im.mode) THEN ConvertRGB(im)
    ELSE im

MaskOf(im) ==
    IF NeedsComposite(im.mode) THEN Split(im)[MaskIndex(im.mode) + 1] ELSE <<>>

\* except Exception: the classes the handler catches.
ExceptionClasses ==
    {"FileNotFoundError", "UnidentifiedImageError", "OSError", "PermissionError"}

\* Mutant: the handler is written except FileNotFoundError.
CatchesMissingOnly(e) == e = "FileNotFoundError"

Catches(e) == e \in ExceptionClasses

\* What a failed encode leaves at the output path: the file was opened with
\* "w+b" (created or truncated) and written in part; a file the save created
\* may be removed again.
EncodeFailureFiles(old, im) ==
    {Empty, Truncated(im.mode, im.size)}
        \cup (IF old.kind = "missing" THEN {NoFile} ELSE {})

\* Mutant: sys.exit(1) is missing.
ExitStatusZero(r) == <<0>>

\* Exit status __main__ ends with.
ExitStatus(r) == IF r = "True" THEN <<0>> ELSE <<1>>

MainMessage(r) == IF r = "True" THEN "ready" ELSE "failed"

---------------------------------------------------------------------------
InitWith(files) ==
    /\ \E icon \in files, other \in {NoFile, OldOutput} :
          fs = [p \in Paths |-> IF p = IconPath THEN icon ELSE other]
    /\ pc = "idle"
    /\ viaMain = FALSE
    /\ input_path = IconPath
    /\ output_path = IconPath
    /\ img = NoImage
    /\ mask = <<>>
    /\ exc = "none"
    /\ failedAt = "none"
    /\ propagated = FALSE
    /\ ret = "none"
    /\ exitCode = <<>>
    /\ log = <<>>
    /\ pre = fs
    /\ opened = NoImage
    /\ prev = [ok |-> FALSE, path |-> "", file |-> NoFile]
    /\ runs = 0

Init == InitWith(InputFiles)

\* A fresh process: locals and console are those of the new invocation.
Enter(main, outp) ==
    /\ pc = "idle"
    /\ runs < MaxRuns
    /\ pc' = "open"
    /\ viaMain' = main
    /\ input_path' = IconPath
    /\ output_path' = outp
    /\ img' = NoImage
    /\ mask' = <<>>
    /\ exc' = "none"
    /\ failedAt' = "none"
    /\ propagated' = FALSE
    /\ ret' = "none"
    /\ exitCode' = <<>>
    /\ log' = IF main THEN <<"fixing", "input">> ELSE <<>>
    /\ pre' = fs
    /\ opened' = NoImage
    /\ UNCHANGED <<fs, prev, runs>>

\* __main__: both paths are the app icon.
MainStart == Enter(TRUE, IconPath)

\* remove_alpha called with an output path of the caller's choice.
CallStart == \E outp \in Paths : Enter(FALSE, outp)

Raise(e, step) ==
    /\ exc' = e
    /\ failedAt' = step
    /\ pc' = "except"

\* Mutant: the output file is opened for writing before the input is read.
OpenClobber ==
    /\ pc = "open"
    /\ LET f == fs[input_path] IN
       IF OpenError(f) # "none"
       THEN /\ Raise(OpenError(f), "decode")
            /\ UNCHANGED <<img, opened>>
       ELSE /\ img' = OpenHeader(f)
            /\ opened' = OpenHeader(f)
            /\ pc' = "branch"
            /\ UNCHANGED <<exc, failedAt>>
    /\ fs' = [fs EXCEPT ![output_path] = Empty]
    /\ UNCHANGED <<viaMain, input_path, output_path, mask, propagated, ret,
                   exitCode, log, pre, prev, runs>>

\* img = Image.open(input_path)
Open ==
    /\ pc = "open"
    /\ LET f == fs[input_path] IN
       IF OpenError(f) # "none"
       THEN /\ Raise(OpenError(f), "decode")
            /\ UNCHANGED <<img, opened>>
       ELSE /\ img' = OpenHeader(f)
            /\ opened' = OpenHeader(f)
            /\ pc' = "branch"
            /\ UNCHANGED <<exc, failedAt>>
    /\ UNCHANGED <<fs, viaMain, input_path, output_path, mask, propagated, ret,
                   exitCode, log, pre, prev, runs>>

\* if img.mode in ('RGBA', 'LA'): ... elif img.mode != 'RGB': ...
\* An RGB image passes untouched (and still undecoded).
Branch ==
    /\ pc = "branch"
    /\ LET f == fs[input_path]
           touched == NeedsComposite(img.mode) \/ NeedsConvert(img.mode) IN
       IF touched /\ LoadError(img, f) # "none"
       THEN /\ Raise(LoadError(img, f),
                     IF NeedsComposite(img.mode) THEN "composite" ELSE "decode")
            /\ UNCHANGED <<img, mask>>
       ELSE /\ img' = IF touched THEN Flatten(Load(img, f)) ELSE img
            /\ mask' = IF touched THEN MaskOf(Load(img, f)) ELSE <<>>
            /\ pc' = "save"
            /\ UNCHANGED <<exc, failedAt>>
    /\ UNCHANGED <<fs, viaMain, input_path, output_path, propagated, ret,
                   exitCode, log, pre, opened, prev, runs>>

\* img.save(output_path, 'PNG', optimize=True): load, open the output for
\* writing, encode.  Opening and encoding may fail for reasons outside the
\* program (permissions, disk).
Save ==
    /\ pc = "save"
    /\ LET f == fs[input_path]
           old == fs[output_path] IN
       IF LoadError(img, f) # "none"
       THEN /\ Raise(LoadError(img, f), "decode")
            /\ UNCHANGED <<fs, img>>
       ELSE \/ /\ Raise("PermissionError", "open_out")
               /\ img' = Load(img, f)
               /\ UNCHANGED fs
            \/ /\ \E left \in EncodeFailureFiles(old, Load(img, f)) :
                     fs' = [fs EXCEPT ![output_path] = left]
               /\ Raise("OSError", "encode")
               /\ img' = Load(img, f)
            \/ /\ fs' = [fs EXCEPT ![output_path] = EncodePNG(Load(img, f))]
               /\ img' = Load(img, f)
               /\ pc' = "report"
               /\ UNCHANGED <<exc, failedAt>>
    /\ UNCHANGED <<viaMain, input_path, output_path, mask, propagated, ret,
                   exitCode, log, pre, opened, prev, runs>>

\* print(...) x3; return True
Report ==
    /\ pc = "report"
    /\ log' = log \o <<"fixed", "mode", "size">>
    /\ ret' = "True"
    /\ pc' = "returned"
    /\ UNCHANGED <<fs, viaMain, input_path, output_path, img, mask, exc, failedAt,
                   propagated, exitCode, pre, opened, prev, runs>>

\* except Exception as e: print(...); return False
Handler ==
    /\ pc = "except"
    /\ IF Catches(exc)
       THEN /\ log' = log \o <<"error">>
            /\ ret' = "False"
            /\ UNCHANGED propagated
       ELSE /\ propagated' = TRUE
            /\ UNCHANGED <<log, ret>>
    /\ pc' = "returned"
    /\ UNCHANGED <<fs, viaMain, input_path, output_path, img, mask, exc, failedAt,
                   exitCode, pre, opened, prev, runs>>

\* __main__ after the call: message, then exit status.
MainExit ==
    /\ pc = "returned"
    /\ viaMain
    /\ IF propagated
       THEN /\ exitCode' = <<1>>
            /\ UNCHANGED log
       ELSE /\ log' = Append(log, MainMessage(ret))
            /\ exitCode' = ExitStatus(ret)
    /\ pc' = "exited"
    /\ UNCHANGED <<fs, viaMain, input_path, output_path, img, mask, exc, failedAt,
                   propagated, ret, pre, opened, prev, runs>>

\* The invocation is over; the next one starts from the files it left.
Finish ==
    /\ pc = IF viaMain THEN "exited" ELSE "returned"
    /\ runs < MaxRuns
    /\ runs' = runs + 1
    /\ prev' = IF ret = "True"
               THEN [ok |-> TRUE, path |-> output_path, file |-> fs[output_path]]
               ELSE [ok |-> FALSE, path |-> "", file |-> NoFile]
    /\ pc' = "idle"
    /\ UNCHANGED <<fs, viaMain, input_path, output_path, img, mask, exc, failedAt,
                   propagated, ret, exitCode, log, pre, opened>>

Next ==
    \/ MainStart
    \/ CallStart
    \/ Open
    \/ Branch
    \/ Save
    \/ Report
    \/ Handler
    \/ MainExit
    \/ Finish

Spec == Init /\ [][Next]_vars

\* One run of the script on an icon whose single RGBA pixel takes every
\* colour and alpha byte (besides the sampled input files).
BytePngs ==
    {Png("RGBA", <<1, 1>>, << <<c, 255 - c, (7 * c + 3) % 256, a>> >>) :
        c \in Byte, a \in Byte}

InitBytes == InitWith(InputFiles \cup BytePngs)

NextOnce ==
    \/ MainStart
    \/ Open
    \/ Branch
    \/ Save
    \/ Report
    \/ Handler
    \/ MainExit

SpecBytes == InitBytes /\ [][NextOnce]_vars

---------------------------------------------------------------------------
\* Properties

InFile == pre[input_path]
OutFile == fs[output_path]
WhitePixel == <<255, 255, 255>>
Abs(x) == IF x < 0 THEN -x ELSE x
Printed(m) == \E i \in 1..Len(log) : log[i] = m
Over == pc \in {"returned", "exited"}

\* out is within 1 of c * (a/255) + 255 * (1 - a/255)
NearBlend(out, c, a) == Abs(255 * out - (c * a + 255 * (255 - a))) <= 255

\* C1: whatever the input mode, the image that reaches the save step and the
\* file a successful invocation writes have mode RGB: three bands, no alpha.
C1_OutputModeRGB ==
    /\ pc = "save" => img.mode = "RGB"
    /\ (pc = "report" \/ ret = "True") =>
          /\ OutFile.kind = "png"
          /\ OutFile.mode = "RGB"
          /\ \A i \in 1..Len(OutFile.data) : Len(OutFile.data[i]) = 3

C1_Witness ==
    /\ ret = "True"
    /\ InFile.mode = "RGBA"
    /\ \E i \in 1..Len(InFile.data) : InFile.data[i][4] = 128
    /\ OutFile.mode = "RGB"

\* C2: for an RGBA input, a pixel of alpha 255 has exactly its (R,G,B) in the
\* output.
C2_OpaqueKept ==
    (ret = "True" /\ InFile.mode = "RGBA") =>
        /\ Len(OutFile.data) = Len(InFile.data)
        /\ \A i \in 1..Len(InFile.data) :
              InFile.data[i][4] = 255 =>
                  OutFile.data[i] =
                      <<InFile.data[i][1], InFile.data[i][2], InFile.data[i][3]>>

C2_Witness ==
    /\ ret = "True"
    /\ InFile = Png("RGBA", <<1, 1>>, << <<200, 55, 123, 255>> >>)
    /\ OutFile.data = << <<200, 55, 123>> >>

\* C3: for an RGBA input, a pixel of alpha 0 is white in the output whatever
\* its colour channels were.
C3_TransparentWhite ==
    (ret = "True" /\ InFile.mode = "RGBA") =>
        \A i \in 1..Len(InFile.data) :
            InFile.data[i][4] = 0 => OutFile.data[i] = WhitePixel

C3_Witness ==
    /\ ret = "True"
    /\ InFile = Png("RGBA", <<1, 1>>, << <<0, 255, 3, 0>> >>)
    /\ OutFile.data = << WhitePixel >>

\* C4: for an RGBA input every output channel is within 1 of
\* colour * a/255 + 255 * (1 - a/255); black at alpha 128 comes out as
\* (127,127,127) give or take 1.
C4_BlendFormula ==
    (ret = "True" /\ InFile.mode = "RGBA") =>
        \A i \in 1..Len(InFile.data) :
            /\ \A k \in 1..3 :
                  NearBlend(OutFile.data[i][k], InFile.data[i][k], InFile.data[i][4])
            /\ InFile.data[i] = <<0, 0, 0, 128>> =>
                  \A k \in 1..3 : OutFile.data[i][k] \in 126..128

C4_Witness ==
    /\ ret = "True"
    /\ InFile = Png("RGBA", <<1, 1>>, << <<0, 0, 0, 128>> >>)
    /\ OutFile.data = << <<127, 127, 127>> >>

\* C5: an RGB input is written back with identical pixel data and size and
\* no mask is used; so an invocation that reads what the invocation before
\* it wrote writes the same file again.
C5_RGBNoOp ==
    /\ (ret = "True" /\ InFile.mode = "RGB") =>
          /\ OutFile = InFile
          /\ mask = <<>>
    /\ (ret = "True" /\ prev.ok /\ prev.path = input_path) => OutFile = prev.file

C5_Witness ==
    /\ ret = "True"
    /\ prev.ok
    /\ prev.path = input_path
    /\ prev.file.data = << <<127, 127, 127>> >>
    /\ OutFile = prev.file

\* C6: a failure of decode, compositing or encode makes remove_alpha return
\* False and no exception leaves it; it returns True only when the image was
\* decoded, went through the mode branch and was written.
C6_FailuresReturnFalse ==
    /\ ~propagated
    /\ Over => ret \in {"True", "False"}
    /\ (Over /\ (failedAt # "none" \/ InFile.kind # "png")) => ret = "False"
    /\ ret = "False" => (failedAt # "none" /\ exc # "none" /\ Printed("error"))
    /\ ret = "True" =>
          /\ failedAt = "none"
          /\ exc = "none"
          /\ img.loaded
          /\ OutFile = EncodePNG(img)

C6_Witness ==
    /\ pc = "returned"
    /\ ret = "False"
    /\ failedAt = "composite"
    /\ exc = "OSError"

\* C7: in every branch the written image has the width and height of the
\* decoded input.
C7_SizeKept ==
    ret = "True" =>
        /\ OutFile.size = opened.size
        /\ OutFile.size = InFile.size
        /\ Len(OutFile.data) = InFile.size[1] * InFile.size[2]

C7_Witness ==
    /\ ret = "True"
    /\ InFile.mode = "LA"
    /\ InFile.size = <<2, 1>>
    /\ OutFile.size = <<2, 1>>

\* C8: the script ends with status 1 exactly when remove_alpha returned
\* False and with 0 exactly when it returned True; the ready message is
\* printed only after True and the failure message only after False.
C8_ExitCode ==
    /\ pc = "exited" =>
          /\ ret \in {"True", "False"}
          /\ exitCode = <<1>> <=> ret = "False"
          /\ exitCode = <<0>> <=> ret = "True"
          /\ Printed("ready") <=> ret = "True"
          /\ Printed("failed") <=> ret = "False"
    /\ pc \notin {"exited", "idle"} =>
          /\ exitCode = <<>>
          /\ ~Printed("ready")
          /\ ~Printed("failed")

C8_Witness ==
    /\ pc = "exited"
    /\ ret = "False"
    /\ exitCode = <<1>>
    /\ Printed("failed")

\* C9 as stated: after a failed invocation the file at output_path is what it
\* was before the invocation.
C9_AtomicFailure == ret = "False" => OutFile = pre[output_path]

\* C9 amended: after an invocation that failed before the encode step
\* (decode, mode branch, or opening output_path for writing) every file is
\* what it was before; no invocation touches a path other than output_path;
\* a failure during encode leaves output_path empty, truncated or absent.
C9_FailureBeforeEncodeKeepsFiles ==
    /\ (ret = "False" /\ failedAt # "encode") => fs = pre
    /\ \A p \in Paths : p # output_path => fs[p] = pre[p]
    /\ (ret = "False" /\ failedAt = "encode") =>
          OutFile.kind \in {"empty", "truncated", "missing"}

C9_Witness ==
    /\ ret = "False"
    /\ failedAt = "open_out"
    /\ output_path = input_path
    /\ InFile.kind = "png"
    /\ OutFile = InFile

\* C10: the mask is the band at index 3 of an RGBA image and at index 1 of
\* an LA image; an LA pixel is its gray level blended over white (white at
\* alpha 0, (L,L,L) at alpha 255); L and P images are converted to RGB
\* without a mask or a white canvas.
C10_MaskByPosition ==
    (pc = "save" \/ ret = "True") =>
        /\ InFile.mode = "RGBA" =>
              mask = [i \in 1..Len(InFile.data) |-> InFile.data[i][4]]
        /\ InFile.mode = "LA" =>
              mask = [i \in 1..Len(InFile.data) |-> InFile.data[i][2]]
        /\ InFile.mode \notin {"RGBA", "LA"} => mask = <<>>
        /\ (ret = "True" /\ InFile.mode = "LA") =>
              \A i \in 1..Len(InFile.data) :
                  LET l == InFile.data[i][1]
                      a == InFile.data[i][2]
                      o == OutFile.data[i] IN
                  /\ o[1] = o[2] /\ o[2] = o[3]
                  /\ NearBlend(o[1], l, a)
                  /\ a = 0 => o = WhitePixel
                  /\ a = 255 => o = <<l, l, l>>
        /\ (ret = "True" /\ InFile.mode = "L") =>
              \A i \in 1..Len(InFile.data) :
                  LET l == InFile.data[i][1] IN OutFile.data[i] = <<l, l, l>>
        /\ (ret = "True" /\ InFile.mode = "P") =>
              \A i \in 1..Len(InFile.data) :
                  OutFile.data[i] = Palette[InFile.data[i][1] + 1]

C10_Witness ==
    /\ ret = "True"
    /\ InFile = Png("LA", <<2, 1>>, << <<77, 0>>, <<77, 255>> >>)
    /\ OutFile.data = << WhitePixel, <<77, 77, 77>> >>

====
